---------------------------- MODULE Spec2Model ----------------------------
(***************************************************************************)
(* Model of the access-log pattern compiler of logger/pattern.go: the      *)
(* lexer (lex), the pattern compiler (parse), the table of field renderers *)
(* (fields) and the pattern executor (pattern.write).                      *)
(*                                                                         *)
(* Text (format strings, buffers, header names, addresses) is modelled by  *)
(* TLA+ strings, used as sequences of characters (Len, SubSeq, \o).        *)
(***************************************************************************)
EXTENDS Integers, Sequences, FiniteSets, TLC

VARIABLES
    format,   \* the format string handed to parse
    fields,   \* the field table handed to parse (name -> renderer)
    s,        \* parse: the runes not yet consumed
    p,        \* parse: the pattern built so far; afterwards the compiled pattern
    err,      \* parse: the returned error ("" is nil)
    pc,       \* parse: "loop" (in the for loop), "ok" or "failed" (returned)
    toks,     \* parse: the (typ, val) pairs of the iterations performed so far
    callers,  \* the goroutines that execute the compiled pattern
    inputs,   \* the name of the set of (b, t1, t2, w, r) a caller may pass to write
    calls     \* per caller: the state of its call of pattern.write

vars == <<format, fields, s, p, err, pc, toks, callers, inputs, calls>>

-----------------------------------------------------------------------------
(* Characters *)

LowerLetters == "abcdefghijklmnopqrstuvwxyz"
UpperLetters == "ABCDEFGHIJKLMNOPQRSTUVWXYZ"
DigitChars == "0123456789"

Chars(str) == {SubSeq(str, k, k) : k \in 1..Len(str)}

At(str, k) == SubSeq(str, k, k)

\* isIDChar of lex: [a-zA-Z0-9_-]
isIDChar(ch) ==
    \/ ch \in Chars(LowerLetters)
    \/ ch \in Chars(UpperLetters)
    \/ ch \in Chars(DigitChars)
    \/ ch = "_"
    \/ ch = "-"

-----------------------------------------------------------------------------
(* The lexer *)

itemText == 0
itemField == 1
itemHeader == 2

stateStart == 0
stateText == 1
stateDollar == 2
stateField == 3
stateDot == 4
stateHeader == 5

\* One iteration of lex's loop either moves to a state or returns a token.
Goto(st) == [ret |-> FALSE, state |-> st, typ |-> itemText, n |-> 0]
Return(typ, n) == [ret |-> TRUE, state |-> stateStart, typ |-> typ, n |-> n]

\* case stateStart
lexStart(ch) == IF ch = "$" THEN Goto(stateDollar) ELSE Goto(stateText)

\* case stateText: i is the 0-based index of the rune ch
lexText(i, ch) == IF ch = "$" THEN Return(itemText, i) ELSE Goto(stateText)

\* case stateDollar
lexDollar(ch) == IF isIDChar(ch) THEN Goto(stateField) ELSE Goto(stateText)

\* case stateField
lexField(str, i, ch) ==
    IF ch = "."
    THEN IF SubSeq(str, 1, i) = "$header" THEN Goto(stateDot)
         ELSE Return(itemField, i)
    ELSE IF isIDChar(ch) THEN Goto(stateField)
    ELSE Return(itemField, i)

\* case stateDot
lexDot(i, ch) == IF isIDChar(ch) THEN Goto(stateHeader) ELSE Return(itemField, i)

\* case stateHeader
lexHeader(i, ch) == IF isIDChar(ch) THEN Goto(stateHeader) ELSE Return(itemHeader, i)

\* A variant of lexEnd that applies the Dot rule (len(s) - 1) in every state.
lexEndShort(str, st) ==
    CASE st = stateField -> Return(itemField, Len(str) - 1)
      [] st = stateHeader -> Return(itemHeader, Len(str) - 1)
      [] st = stateDot -> Return(itemField, Len(str) - 1)
      [] OTHER -> Return(itemText, Len(str) - 1)

\* A variant of lexEnd whose Dot case returns the full length.
lexEndFullDot(str, st) ==
    CASE st = stateDot -> Return(itemField, Len(str))
      [] st = stateField -> Return(itemField, Len(str))
      [] st = stateHeader -> Return(itemHeader, Len(str))
      [] OTHER -> Return(itemText, Len(str))

\* The switch after the loop: the token of each state at end of input.
lexEnd(str, st) ==
    CASE st = stateDot -> Return(itemField, Len(str) - 1)
      [] st = stateField -> Return(itemField, Len(str))
      [] st = stateHeader -> Return(itemHeader, Len(str))
      [] OTHER -> Return(itemText, Len(str))

\* The body of the loop for the rune ch at 0-based index i.
lexStep(str, i, st, ch) ==
    CASE st = stateStart -> lexStart(ch)
      [] st = stateText -> lexText(i, ch)
      [] st = stateDollar -> lexDollar(ch)
      [] st = stateField -> lexField(str, i, ch)
      [] st = stateDot -> lexDot(i, ch)
      [] st = stateHeader -> lexHeader(i, ch)

RECURSIVE lexLoop(_, _, _)
lexLoop(str, i, st) ==
    IF i >= Len(str) THEN lexEnd(str, st)
    ELSE LET step == lexStep(str, i, st, At(str, i + 1))
         IN  IF step.ret THEN step ELSE lexLoop(str, i + 1, step.state)

\* lex(s) returns (typ, n)
lex(str) ==
    LET res == lexLoop(str, 0, stateStart)
    IN  [typ |-> res.typ, n |-> res.n]


-----------------------------------------------------------------------------
(* Go arithmetic and slices *)

\* Integer division and remainder of Go truncate toward zero (den > 0 here).
GoDiv(num, den) == IF num >= 0 THEN num \div den ELSE -((-num) \div den)
GoMod(num, den) == num - den * GoDiv(num, den)

\* str[lo:hi] and str[lo:] with Go's 0-based bounds
Slice(str, lo, hi) == SubSeq(str, lo + 1, hi)
SliceFrom(str, lo) == SubSeq(str, lo + 1, Len(str))

\* 0-based index of the first / last occurrence of ch in str, -1 if absent
IndexByte(str, ch) ==
    IF \E k \in 1..Len(str) : At(str, k) = ch
    THEN (CHOOSE k \in 1..Len(str) :
              At(str, k) = ch /\ \A j \in 1..(k - 1) : At(str, j) # ch) - 1
    ELSE -1

LastIndexByte(str, ch) ==
    IF \E k \in 1..Len(str) : At(str, k) = ch
    THEN (CHOOSE k \in 1..Len(str) :
              At(str, k) = ch /\ \A j \in (k + 1)..Len(str) : At(str, j) # ch) - 1
    ELSE -1

-----------------------------------------------------------------------------
(* Library calls made by the renderers *)

\* net.SplitHostPort, as called by the $remote_* and $upstream_* fields:
\* on any error both host and port are empty.
splitFail == [host |-> "", port |-> "", err |-> TRUE]

splitFinish(hostport, host, j, k, i) ==
    IF IndexByte(SliceFrom(hostport, j), "[") >= 0 THEN splitFail
    ELSE IF IndexByte(SliceFrom(hostport, k), "]") >= 0 THEN splitFail
    ELSE [host |-> host, port |-> SliceFrom(hostport, i + 1), err |-> FALSE]

SplitHostPort(hostport) ==
    LET i == LastIndexByte(hostport, ":")
    IN  IF i < 0 THEN splitFail
        ELSE IF At(hostport, 1) = "["
        THEN LET end == IndexByte(hostport, "]")
             IN  IF end < 0 THEN splitFail
                 ELSE IF end + 1 = Len(hostport) THEN splitFail
                 ELSE IF end + 1 # i THEN splitFail
                 ELSE splitFinish(hostport, Slice(hostport, 1, end), 1, end + 1, i)
        ELSE LET host == Slice(hostport, 0, i)
             IN  IF IndexByte(host, ":") >= 0 THEN splitFail
                 ELSE splitFinish(hostport, host, 0, 0, i)

\* http.Header.Get canonicalises the key it is given (first letter and every
\* letter after a '-' upper case, the rest lower case) and looks that exact
\* key up in the map; the keys stored in the map are not canonicalised.
HeaderTokenChars ==
    Chars(LowerLetters) \cup Chars(UpperLetters) \cup Chars(DigitChars)
        \cup Chars("!#$%&*+-.^_|~")

ToUpper(ch) == At(UpperLetters, IndexByte(LowerLetters, ch) + 1)
ToLower(ch) == At(LowerLetters, IndexByte(UpperLetters, ch) + 1)

RECURSIVE canonLoop(_, _, _)
canonLoop(name, k, upper) ==
    IF k > Len(name) THEN ""
    ELSE LET ch == At(name, k)
             out == IF upper /\ ch \in Chars(LowerLetters) THEN ToUpper(ch)
                    ELSE IF ~upper /\ ch \in Chars(UpperLetters) THEN ToLower(ch)
                    ELSE ch
         IN  out \o canonLoop(name, k + 1, ch = "-")

CanonicalMIMEHeaderKey(name) ==
    IF \E k \in 1..Len(name) : At(name, k) \notin HeaderTokenChars THEN name
    ELSE canonLoop(name, 1, TRUE)

\* A lookup by the key exactly as written, with no canonicalisation.
GetExact(h, key) ==
    IF key \notin DOMAIN h THEN ""
    ELSE IF Len(h[key]) = 0 THEN "" ELSE h[key][1]

\* r.Header.Get(name): the first value stored under the canonical key, or ""
Get(h, key) ==
    LET k == CanonicalMIMEHeaderKey(key)
    IN  IF k \notin DOMAIN h THEN ""
        ELSE IF Len(h[k]) = 0 THEN "" ELSE h[k][1]

\* time.Time is modelled by its nanoseconds since the Unix epoch, in UTC, for
\* instants of the first seconds of 1970 (the values must fit 32 bits).
Second == 1000000000
Millisecond == 1000000
Microsecond == 1000
Nanosecond == 1

Sub(tb, ta) == tb - ta
UnixNano(t) == t
TimeYear(t) == 1970
TimeMonth(t) == 1
TimeDay(t) == 1
TimeHour(t) == 0
TimeMinute(t) == (t \div Second) \div 60
TimeSecond(t) == (t \div Second) % 60
TimeNanosecond(t) == t % Second

shortMonthNames ==
    <<"---", "Jan", "Feb", "Mar", "Apr", "May", "Jun", "Jul", "Aug", "Sep",
      "Oct", "Nov", "Dec">>

\* atoi(b, i, pad): the decimal digits of i appended to b, a leading '-' for a
\* negative i, the digits of the magnitude left-padded with '0' to pad digits.
RECURSIVE digits(_)
digits(n) ==
    IF n < 10 THEN At(DigitChars, n + 1)
    ELSE digits(n \div 10) \o At(DigitChars, (n % 10) + 1)

RECURSIVE zeroPad(_, _)
zeroPad(str, pad) == IF Len(str) < pad THEN zeroPad("0" \o str, pad) ELSE str

atoi(buf, i, pad) ==
    buf \o (IF i < 0 THEN "-" ELSE "")
        \o zeroPad(digits(IF i < 0 THEN -i ELSE i), pad)

-----------------------------------------------------------------------------
(* The field renderers *)

\* A field (renderer) is a closure: fn names its code, arg is the string it
\* captured.  Calling it either appends to the buffer or panics (a nil
\* pointer dereference) before it has appended anything.
Ok(buf) == [panic |-> FALSE, b |-> buf]
Panic(buf) == [panic |-> TRUE, b |-> buf]

field_remote_addr(buf, ta, tb, resp, req) == Ok(buf \o req.RemoteAddr)

field_remote_host(buf, ta, tb, resp, req) ==
    Ok(buf \o SplitHostPort(req.RemoteAddr).host)

field_remote_port(buf, ta, tb, resp, req) ==
    Ok(buf \o SplitHostPort(req.RemoteAddr).port)

field_request(buf, ta, tb, resp, req) ==
    Ok(buf \o req.Method \o " " \o req.RequestURI \o " " \o req.Proto)

field_request_args(buf, ta, tb, resp, req) ==
    IF req.URL.nil THEN Panic(buf) ELSE Ok(buf \o req.URL.RawQuery)

field_request_host(buf, ta, tb, resp, req) == Ok(buf \o req.Host)

field_request_method(buf, ta, tb, resp, req) == Ok(buf \o req.Method)

field_request_uri(buf, ta, tb, resp, req) == Ok(buf \o req.RequestURI)

field_request_proto(buf, ta, tb, resp, req) == Ok(buf \o req.Proto)

field_response_body_size(buf, ta, tb, resp, req) ==
    IF resp.nil THEN Panic(buf) ELSE Ok(atoi(buf, resp.ContentLength, 0))

field_response_status(buf, ta, tb, resp, req) ==
    IF resp.nil THEN Panic(buf) ELSE Ok(atoi(buf, resp.StatusCode, 0))

\* d/Second "." (d%Second/unit) padded to pad digits, d = t2.Sub(t1)
responseTime(buf, ta, tb, unit, pad) ==
    LET d == Sub(tb, ta)
        secs == GoDiv(d, Second)
        frac == GoDiv(GoMod(d, Second), unit)
    IN  atoi(atoi(buf, secs, 0) \o ".", frac, pad)

field_response_time_ms(buf, ta, tb, resp, req) ==
    Ok(responseTime(buf, ta, tb, Millisecond, 3))

field_response_time_us(buf, ta, tb, resp, req) ==
    Ok(responseTime(buf, ta, tb, Microsecond, 6))

field_response_time_ns(buf, ta, tb, resp, req) ==
    Ok(responseTime(buf, ta, tb, Nanosecond, 9))

field_time_unix_ms(buf, ta, tb, resp, req) ==
    Ok(atoi(buf, GoDiv(UnixNano(tb), Millisecond), 0))

field_time_unix_us(buf, ta, tb, resp, req) ==
    Ok(atoi(buf, GoDiv(UnixNano(tb), Microsecond), 0))

field_time_unix_ns(buf, ta, tb, resp, req) == Ok(atoi(buf, UnixNano(tb), 0))

field_time_common(buf, ta, tb, resp, req) ==
    LET b1 == atoi(buf, TimeDay(tb), 2) \o "/"
        b2 == b1 \o shortMonthNames[TimeMonth(tb) + 1] \o "/"
        b3 == atoi(b2, TimeYear(tb), 4) \o ":"
        b4 == atoi(b3, TimeHour(tb), 2) \o ":"
        b5 == atoi(b4, TimeMinute(tb), 2) \o ":"
        b6 == atoi(b5, TimeSecond(tb), 2)
    IN  Ok(b6 \o " +0000")

\* YYYY-MM-DDTHH:MM:SS, the common start of the $time_rfc3339* fields
rfc3339(buf, tb) ==
    LET b1 == atoi(buf, TimeYear(tb), 4) \o "-"
        b2 == atoi(b1, TimeMonth(tb), 2) \o "-"
        b3 == atoi(b2, TimeDay(tb), 2) \o "T"
        b4 == atoi(b3, TimeHour(tb), 2) \o ":"
        b5 == atoi(b4, TimeMinute(tb), 2) \o ":"
    IN  atoi(b5, TimeSecond(tb), 2)

field_time_rfc3339(buf, ta, tb, resp, req) == Ok(rfc3339(buf, tb) \o "Z")

field_time_rfc3339_ms(buf, ta, tb, resp, req) ==
    Ok(atoi(rfc3339(buf, tb) \o ".", GoDiv(TimeNanosecond(tb), Millisecond), 3) \o "Z")

field_time_rfc3339_us(buf, ta, tb, resp, req) ==
    Ok(atoi(rfc3339(buf, tb) \o ".", GoDiv(TimeNanosecond(tb), Microsecond), 6) \o "Z")

field_time_rfc3339_ns(buf, ta, tb, resp, req) ==
    Ok(atoi(rfc3339(buf, tb) \o ".", TimeNanosecond(tb), 9) \o "Z")

field_upstream_addr(buf, ta, tb, resp, req) ==
    IF resp.nil THEN Panic(buf)
    ELSE IF resp.Request.nil THEN Panic(buf)
    ELSE Ok(buf \o resp.Request.RemoteAddr)

field_upstream_host(buf, ta, tb, resp, req) ==
    IF resp.nil THEN Panic(buf)
    ELSE IF resp.Request.nil THEN Panic(buf)
    ELSE Ok(buf \o SplitHostPort(resp.Request.RemoteAddr).host)

field_upstream_port(buf, ta, tb, resp, req) ==
    IF resp.nil THEN Panic(buf)
    ELSE IF resp.Request.nil THEN Panic(buf)
    ELSE Ok(buf \o SplitHostPort(resp.Request.RemoteAddr).port)

\* The names of the fields map
fieldNames ==
    {"$remote_addr", "$remote_host", "$remote_port", "$request",
     "$request_args", "$request_host", "$request_method", "$request_uri",
     "$request_proto", "$response_body_size", "$response_status",
     "$response_time_ms", "$response_time_us", "$response_time_ns",
     "$time_unix_ms", "$time_unix_us", "$time_unix_ns", "$time_common",
     "$time_rfc3339", "$time_rfc3339_ms", "$time_rfc3339_us",
     "$time_rfc3339_ns", "$upstream_addr", "$upstream_host", "$upstream_port"}

\* var fields: each name bound to its renderer
builtinFields == [name \in fieldNames |-> [fn |-> name, arg |-> ""]]

\* The table of TestParse: $a writes "aa", $b writes "bb"
testFields ==
    ("$a" :> [fn |-> "WriteString", arg |-> "aa"])
        @@ ("$b" :> [fn |-> "WriteString", arg |-> "bb"])

\* text(s) of parse: a renderer that writes the raw text s
text(val) == [fn |-> "text", arg |-> val]

\* header(name) of parse: a renderer that writes the HTTP header name
header(name) == [fn |-> "header", arg |-> name]

\* fn(b, t1, t2, w, r) for a renderer fn
Call(fn, buf, ta, tb, resp, req) ==
    CASE fn.fn = "text" -> Ok(buf \o fn.arg)
      [] fn.fn = "WriteString" -> Ok(buf \o fn.arg)
      [] fn.fn = "header" -> Ok(buf \o Get(req.Header, fn.arg))
      [] fn.fn = "$remote_addr" -> field_remote_addr(buf, ta, tb, resp, req)
      [] fn.fn = "$remote_host" -> field_remote_host(buf, ta, tb, resp, req)
      [] fn.fn = "$remote_port" -> field_remote_port(buf, ta, tb, resp, req)
      [] fn.fn = "$request" -> field_request(buf, ta, tb, resp, req)
      [] fn.fn = "$request_args" -> field_request_args(buf, ta, tb, resp, req)
      [] fn.fn = "$request_host" -> field_request_host(buf, ta, tb, resp, req)
      [] fn.fn = "$request_method" -> field_request_method(buf, ta, tb, resp, req)
      [] fn.fn = "$request_uri" -> field_request_uri(buf, ta, tb, resp, req)
      [] fn.fn = "$request_proto" -> field_request_proto(buf, ta, tb, resp, req)
      [] fn.fn = "$response_body_size" -> field_response_body_size(buf, ta, tb, resp, req)
      [] fn.fn = "$response_status" -> field_response_status(buf, ta, tb, resp, req)
      [] fn.fn = "$response_time_ms" -> field_response_time_ms(buf, ta, tb, resp, req)
      [] fn.fn = "$response_time_us" -> field_response_time_us(buf, ta, tb, resp, req)
      [] fn.fn = "$response_time_ns" -> field_response_time_ns(buf, ta, tb, resp, req)
      [] fn.fn = "$time_unix_ms" -> field_time_unix_ms(buf, ta, tb, resp, req)
      [] fn.fn = "$time_unix_us" -> field_time_unix_us(buf, ta, tb, resp, req)
      [] fn.fn = "$time_unix_ns" -> field_time_unix_ns(buf, ta, tb, resp, req)
      [] fn.fn = "$time_common" -> field_time_common(buf, ta, tb, resp, req)
      [] fn.fn = "$time_rfc3339" -> field_time_rfc3339(buf, ta, tb, resp, req)
      [] fn.fn = "$time_rfc3339_ms" -> field_time_rfc3339_ms(buf, ta, tb, resp, req)
      [] fn.fn = "$time_rfc3339_us" -> field_time_rfc3339_us(buf, ta, tb, resp, req)
      [] fn.fn = "$time_rfc3339_ns" -> field_time_rfc3339_ns(buf, ta, tb, resp, req)
      [] fn.fn = "$upstream_addr" -> field_upstream_addr(buf, ta, tb, resp, req)
      [] fn.fn = "$upstream_host" -> field_upstream_host(buf, ta, tb, resp, req)
      [] fn.fn = "$upstream_port" -> field_upstream_port(buf, ta, tb, resp, req)

-----------------------------------------------------------------------------
(* parse *)

\* header(val[len("$header."):]): the header name of a Header token
headerName(val) == SliceFrom(val, Len("$header."))

\* A variant of parseToken that returns the pattern built so far with the error.
parseTokenPartial(pat, tbl, typ, val) ==
    CASE typ = itemText -> [p |-> Append(pat, text(val)), err |-> "", ret |-> FALSE]
      [] typ = itemHeader ->
            [p |-> Append(pat, header(headerName(val))), err |-> "", ret |-> FALSE]
      [] typ = itemField ->
            IF val \notin DOMAIN tbl
            THEN [p |-> pat, err |-> "invalid field \"" \o val \o "\"", ret |-> TRUE]
            ELSE [p |-> Append(pat, tbl[val]), err |-> "", ret |-> FALSE]

\* The switch of one iteration of parse's loop on the token (typ, val): the
\* pattern after it, and whether parse returns (nil, error) here.
parseToken(pat, tbl, typ, val) ==
    CASE typ = itemText -> [p |-> Append(pat, text(val)), err |-> "", ret |-> FALSE]
      [] typ = itemHeader ->
            [p |-> Append(pat, header(headerName(val))), err |-> "", ret |-> FALSE]
      [] typ = itemField ->
            IF val \notin DOMAIN tbl
            THEN [p |-> <<>>, err |-> "invalid field \"" \o val \o "\"", ret |-> TRUE]
            ELSE [p |-> Append(pat, tbl[val]), err |-> "", ret |-> FALSE]

\* One iteration of the loop of parse with input left: lex, slice, switch.
ParseIter ==
    /\ pc = "loop"
    /\ Len(s) # 0
    /\ LET l == lex(s)
           val == Slice(s, 0, l.n)
           res == parseToken(p, fields, l.typ, val)
       IN  /\ s' = SliceFrom(s, l.n)
           /\ toks' = Append(toks, [typ |-> l.typ, val |-> val])
           /\ p' = res.p
           /\ err' = res.err
           /\ pc' = IF res.ret THEN "failed" ELSE "loop"
    /\ UNCHANGED <<format, fields, callers, inputs, calls>>

\* len(s) == 0: break, return p, nil
ParseBreak ==
    /\ pc = "loop"
    /\ Len(s) = 0
    /\ pc' = "ok"
    /\ UNCHANGED <<format, fields, s, p, err, toks, callers, inputs, calls>>

-----------------------------------------------------------------------------
(* The inputs *)

MaxPieces == 4
MaxCallers == 2

\* Format strings made of at most n pieces
Pieces == {"$", ".", " ", "a", "U", "u", "header"}

RECURSIVE PieceFormats(_)
PieceFormats(n) ==
    IF n = 0 THEN {""}
    ELSE LET shorter == PieceFormats(n - 1)
         IN  shorter \cup {f \o q : f \in shorter, q \in Pieces}

\* The formats of TestParse and TestLog that use the table of TestParse
testFormats ==
    {"", "$a", "$a $b", "$a \"$header.User-Agent\"", "$header.user-agent",
     "$header.X-Forwarded-For", "$header.x-forwarded-for", "$$a", "$a$header.U.b",
     "$a \"$header.User-Agent\" $c", "$header.U-a", "$header. $a"}

\* The request of TestParse with the headers h
testRequest(h) ==
    [Method |-> "", RequestURI |-> "", Proto |-> "", Host |-> "", RemoteAddr |-> "",
     URL |-> [nil |-> TRUE], Header |-> h]

\* Headers as net/http stores them (canonical keys), headers stored under
\* lower-case keys, and a key that holds no value
headersCanonical ==
    ("User-Agent" :> <<"Mozilla Firefox">>) @@ ("X-Forwarded-For" :> <<"3.3.3.3">>)
        @@ ("U" :> <<"v1", "v2">>)
headersLower == ("user-agent" :> <<"Mozilla Firefox">>) @@ ("u" :> <<"w">>)
headersEmpty == ("U" :> <<>>)

nilResponse == [nil |-> TRUE]

testInputs ==
    {[b |-> b0, t1 |-> 0, t2 |-> 0, w |-> nilResponse, r |-> testRequest(h)] :
        b0 \in {"", "x"}, h \in {headersCanonical, headersLower, headersEmpty}}

\* The request and the response of TestLog
logRequest(addr) ==
    [Method |-> "GET", RequestURI |-> "/?q=x", Proto |-> "HTTP/1.1", Host |-> "foo.com",
     RemoteAddr |-> addr, URL |-> [nil |-> FALSE, RawQuery |-> "?q=x"],
     Header |-> ("User-Agent" :> <<"Mozilla Firefox">>)
                    @@ ("Referer" :> <<"http://foo.com/">>)
                    @@ ("X-Forwarded-For" :> <<"3.3.3.3">>)]

logResponse(size, upstream) ==
    [nil |-> FALSE, StatusCode |-> 200, ContentLength |-> size, Request |-> upstream]

upstreamRequest(addr) == [nil |-> FALSE, RemoteAddr |-> addr]
nilRequest == [nil |-> TRUE]

logInput(ta, tb, resp, req) == [b |-> "", t1 |-> ta, t2 |-> tb, w |-> resp, r |-> req]

fullResponse == logResponse(1234, upstreamRequest("5.6.7.8:1234"))

\* The event of TestLog (moved to the first second of 1970), and events with
\* one datum missing or unusual
logInputs ==
    {logInput(0, 123456789, fullResponse, logRequest("2.2.2.2:666")),
     logInput(0, 123456789, fullResponse, logRequest("2.2.2.2")),
     logInput(0, 123456789, fullResponse, logRequest("[::1]:80")),
     logInput(0, 123456789, fullResponse, logRequest("")),
     logInput(0, 123456789, nilResponse, logRequest("2.2.2.2:666")),
     logInput(0, 123456789, logResponse(1234, nilRequest), logRequest("2.2.2.2:666")),
     logInput(0, 123456789, logResponse(-1, upstreamRequest("5.6.7.8")),
              logRequest("2.2.2.2:666")),
     logInput(0, 2000000001, fullResponse, logRequest("2.2.2.2:666")),
     logInput(1500000000, 0, fullResponse, logRequest("2.2.2.2:666")),
     logInput(61001002, 61001002, fullResponse, logRequest("2.2.2.2:666"))}

\* strings.Join(keys, " ") of BenchmarkLog: every field name, sorted
benchmarkFormat ==
    "$remote_addr $remote_host $remote_port $request "
        \o "$request_args $request_host $request_method $request_proto "
        \o "$request_uri $response_body_size $response_status "
        \o "$response_time_ms $response_time_ns $response_time_us "
        \o "$time_common $time_rfc3339 $time_rfc3339_ms "
        \o "$time_rfc3339_ns $time_rfc3339_us $time_unix_ms "
        \o "$time_unix_ns $time_unix_us $upstream_addr $upstream_host "
        \o "$upstream_port"

logFormats ==
    fieldNames
        \cup {"$header.Referer", "$header.user-agent", "$header.X-Forwarded-For",
              "$header.X-Missing", benchmarkFormat,
              "$remote_addr \"$request\" $response_status",
              "$http_referer", "$remote_addr $Remote_Addr", "$upstream_addr.x"}
        \cup {name \o "|" \o "$remote_port" : name \in fieldNames}

\* Formats and inputs of the concurrent executions
concurrentTestFormats == {"", "$a $b", "$a \"$header.User-Agent\"", "$header.u$a"}
concurrentLogFormats == {"$remote_host:$upstream_port", "$response_status"}
concurrentLogInputs ==
    {logInput(0, 123456789, fullResponse, logRequest("2.2.2.2:666")),
     logInput(0, 123456789, nilResponse, logRequest("2.2.2.2")),
     logInput(0, 1, logResponse(-1, upstreamRequest("5.6.7.8")), logRequest("[::1]:80"))}

idle == [pc |-> "idle"]

InputsNamed(name) ==
    CASE name = "testInputs" -> testInputs
      [] name = "logInputs" -> logInputs
      [] name = "concurrentLogInputs" -> concurrentLogInputs

-----------------------------------------------------------------------------
(* pattern.write *)

\* The renderer of the i-th iteration (1-based) of "for _, fn := range p",
\* here taken from the end of the pattern.
rangeReversed(pat, i) == pat[Len(pat) + 1 - i]

\* The renderer of the i-th iteration (1-based) of "for _, fn := range p".
rangeAt(pat, i) == pat[i]

\* A caller calls p.write(b, t1, t2, w, r) with inputs of its own.
WriteCall(c) ==
    /\ pc = "ok"
    /\ c \in callers
    /\ calls[c].pc = "idle"
    /\ \E in \in InputsNamed(inputs) :
          calls' = [calls EXCEPT ![c] =
                       [pc |-> "range", i |-> 1, b |-> in.b, in |-> in, outs |-> <<>>]]
    /\ UNCHANGED <<format, fields, s, p, err, pc, toks, callers, inputs>>

\* The owner of the one buffer that all callers would share.
sharedOwner == CHOOSE c \in callers : calls[c].pc # "idle" /\
                   \A d \in callers : calls[d].pc # "idle" => c <= d

\* A variant of Invoke in which the callers append to one shared buffer.
InvokeShared(c) ==
    /\ calls[c].pc = "range"
    /\ calls[c].i <= Len(p)
    /\ LET cl == calls[c]
           o == sharedOwner
           res == Call(rangeAt(p, cl.i), calls[o].b, cl.in.t1, cl.in.t2, cl.in.w, cl.in.r)
           mine == [cl EXCEPT !.i = cl.i + 1,
                              !.outs = Append(cl.outs, SliceFrom(res.b, Len(calls[o].b)))]
       IN  calls' = IF res.panic
                    THEN [calls EXCEPT ![c] = [cl EXCEPT !.pc = "panic"]]
                    ELSE [[calls EXCEPT ![c] = mine] EXCEPT ![o].b = res.b]
    /\ UNCHANGED <<format, fields, s, p, err, pc, toks, callers, inputs>>

\* One iteration of the range loop: fn(b, t1, t2, w, r).  outs records the
\* bytes each renderer appended.
Invoke(c) ==
    /\ calls[c].pc = "range"
    /\ calls[c].i <= Len(p)
    /\ LET cl == calls[c]
           res == Call(rangeAt(p, cl.i), cl.b, cl.in.t1, cl.in.t2, cl.in.w, cl.in.r)
       IN  calls' = [calls EXCEPT ![c] =
                IF res.panic
                THEN [cl EXCEPT !.pc = "panic"]
                ELSE [cl EXCEPT !.b = res.b, !.i = cl.i + 1,
                                !.outs = Append(cl.outs, SliceFrom(res.b, Len(cl.b)))]]
    /\ UNCHANGED <<format, fields, s, p, err, pc, toks, callers, inputs>>

\* After the loop: if b.Len() == 0 return; b.WriteRune('\n')
WriteReturn(c) ==
    /\ calls[c].pc = "range"
    /\ calls[c].i > Len(p)
    /\ LET cl == calls[c]
       IN  calls' = [calls EXCEPT ![c] =
                [cl EXCEPT !.pc = "done",
                           !.b = IF Len(cl.b) = 0 THEN cl.b ELSE cl.b \o "\n"]]
    /\ UNCHANGED <<format, fields, s, p, err, pc, toks, callers, inputs>>

Start(fmt, tbl, who, ins) ==
    /\ format = fmt
    /\ fields = tbl
    /\ s = fmt
    /\ p = <<>>
    /\ err = ""
    /\ pc = "loop"
    /\ toks = <<>>
    /\ callers = who
    /\ inputs = ins
    /\ calls = [c \in who |-> idle]

Init ==
    \/ \E fmt \in PieceFormats(MaxPieces) \cup testFormats :
          Start(fmt, testFields, {1}, "testInputs")
    \/ \E fmt \in logFormats : Start(fmt, builtinFields, {1}, "logInputs")
    \/ \E fmt \in concurrentTestFormats :
          Start(fmt, testFields, 1..MaxCallers, "testInputs")
    \/ \E fmt \in concurrentLogFormats :
          Start(fmt, builtinFields, 1..MaxCallers, "concurrentLogInputs")

Next ==
    \/ ParseIter
    \/ ParseBreak
    \/ \E c \in callers : WriteCall(c)
    \/ \E c \in callers : Invoke(c)
    \/ \E c \in callers : WriteReturn(c)

Spec == Init /\ [][Next]_vars

-----------------------------------------------------------------------------
(* Properties *)

\* The token sequence of a format: lex applied until the input is exhausted
RECURSIVE AllTokens(_)
AllTokens(str) ==
    IF Len(str) = 0 THEN <<>>
    ELSE LET l == lex(str)
         IN  <<[typ |-> l.typ, val |-> Slice(str, 0, l.n)]>> \o AllTokens(SliceFrom(str, l.n))

RECURSIVE Concat(_)
Concat(strs) == IF Len(strs) = 0 THEN "" ELSE Head(strs) \o Concat(Tail(strs))

Vals(tokens) == [k \in 1..Len(tokens) |-> tokens[k].val]

HasPrefix(str, prefix) == Len(str) >= Len(prefix) /\ SubSeq(str, 1, Len(prefix)) = prefix

IsIdRun(str) == \A k \in 1..Len(str) : isIDChar(At(str, k))

UnknownField(tok) == tok.typ = itemField /\ tok.val \notin DOMAIN fields

Started(c) == calls[c].pc # "idle"

\* C1: parse returns (nil, error) exactly when the tokens of the format hold a
\* Field token whose text is not a key of the table, however many valid
\* tokens precede it; a format without such a token compiles, whatever
\* Header tokens it holds.
C1_InvalidFieldFails ==
    pc # "loop" =>
        LET all == AllTokens(format)
        IN  IF \E k \in 1..Len(all) : UnknownField(all[k])
            THEN pc = "failed" /\ p = <<>> /\ err # "" /\ UnknownField(toks[Len(toks)])
            ELSE pc = "ok" /\ err = ""

\* parse failed on a Field token that follows a Text, a Field and a Header token
C1_Witness ==
    /\ pc = "failed"
    /\ \E i, j, k \in 1..(Len(toks) - 1) :
          toks[i].typ = itemText /\ toks[j].typ = itemField /\ toks[k].typ = itemHeader

\* C2: when write returns, the buffer is as it was if the renderers appended
\* nothing during the call, and otherwise holds the rendered bytes followed by
\* exactly one "\n".
C2_NoOpWhenNothingRendered ==
    \A c \in callers :
        calls[c].pc = "done" =>
            LET rendered == Concat(calls[c].outs)
            IN  calls[c].b = IF rendered = "" THEN calls[c].in.b
                             ELSE calls[c].in.b \o rendered \o "\n"

\* The renderer parse binds to a token, and what a token contributes to a line
RendererOf(tok) ==
    CASE tok.typ = itemText -> [fn |-> "text", arg |-> tok.val]
      [] tok.typ = itemHeader -> [fn |-> "header", arg |-> SubSeq(tok.val, 9, Len(tok.val))]
      [] tok.typ = itemField -> fields[tok.val]

ValueOf(tok, in) ==
    CASE tok.typ = itemText -> tok.val
      [] tok.typ = itemHeader ->
            Get(in.r.Header, SubSeq(tok.val, 9, Len(tok.val)))
      [] tok.typ = itemField -> Call(fields[tok.val], "", in.t1, in.t2, in.w, in.r).b

\* C3: a format whose Field tokens are all keys of the table compiles to one
\* renderer per token, in token order, and write appends the renderers'
\* outputs in that order: the k-th output is the k-th token's literal text or
\* field value, and the buffer is the initial content followed by the outputs.
C3_OneRendererPerTokenInOrder ==
    LET all == AllTokens(format)
    IN  (pc # "loop" /\ \A k \in 1..Len(all) : ~UnknownField(all[k])) =>
            /\ pc = "ok"
            /\ Len(p) = Len(all)
            /\ \A k \in 1..Len(all) : p[k] = RendererOf(all[k])
            /\ \A c \in callers :
                  Started(c) =>
                      LET cl == calls[c]
                          line == cl.in.b \o Concat(cl.outs)
                      IN  /\ Len(cl.outs) <= Len(all)
                          /\ \A k \in 1..Len(cl.outs) : cl.outs[k] = ValueOf(all[k], cl.in)
                          /\ cl.pc \in {"range", "panic"} => cl.b = line
                          /\ cl.pc = "done" =>
                                /\ Len(cl.outs) = Len(all)
                                /\ cl.b \in {line, line \o "\n"}

\* A line of a Field, a Text and a Header token has been written
C3_Witness ==
    /\ pc = "ok"
    /\ Len(p) >= 3
    /\ \E c \in callers :
          /\ calls[c].pc = "done"
          /\ \A k \in 1..Len(p) : calls[c].outs[k] # ""
          /\ \E i, j \in 1..Len(p) : i < j /\ p[i].fn = "WriteString" /\ p[j].fn = "header"

RECURSIVE Fold(_)
Fold(str) ==
    IF Len(str) = 0 THEN ""
    ELSE (IF Head(str) \in Chars(UpperLetters) THEN ToLower(Head(str)) ELSE Head(str))
             \o Fold(Tail(str))

EqualFold(a, b) == Fold(a) = Fold(b)

\* A key in the form net/http stores: a letter is upper case exactly when it
\* is the first character or follows a '-'
IsCanonicalKey(key) ==
    \A k \in 1..Len(key) :
        LET first == k = 1 \/ At(key, k - 1) = "-"
        IN  /\ At(key, k) \in Chars(LowerLetters) => ~first
            /\ At(key, k) \in Chars(UpperLetters) => first

FirstValue(h, key) == IF Len(h[key]) = 0 THEN "" ELSE h[key][1]

\* The outputs of the header renderers of a call: <<name, headers, output>>
HeaderOutputsOf(c) ==
    {<<p[k].arg, calls[c].in.r.Header, calls[c].outs[k]>> :
        k \in {j \in 1..Len(calls[c].outs) : p[j].fn = "header"}}

HeaderOutputs == UNION {HeaderOutputsOf(c) : c \in {d \in callers : Started(d)}}

C5_NeverAborts ==
    fields = builtinFields =>
        \A c \in callers :
            /\ Started(c) => calls[c].pc # "panic"
            /\ Started(c) /\ calls[c].pc = "done" => Len(calls[c].outs) = Len(p)

IsDigits(str) == \A k \in 1..Len(str) : At(str, k) \in Chars(DigitChars)

ResponseTimeWidth(fn) ==
    CASE fn = "$response_time_ms" -> 3
      [] fn = "$response_time_us" -> 6
      [] fn = "$response_time_ns" -> 9
      [] OTHER -> 0

\* C6: $response_time_ms/_us/_ns render <whole-seconds>.<fraction> with a
\* fraction of exactly 3/6/9 decimal digits, for any start and end timestamps.
C6_FractionDigits ==
    \A c \in callers :
        Started(c) =>
            \A k \in 1..Len(calls[c].outs) :
                ResponseTimeWidth(p[k].fn) > 0 =>
                    LET out == calls[c].outs[k]
                        dot == IndexByte(out, ".")
                        frac == SliceFrom(out, dot + 1)
                    IN  /\ dot >= 1
                        /\ Len(frac) = ResponseTimeWidth(p[k].fn)
                        /\ IsDigits(frac)

\* A solo execution of write: the renderers in order on one buffer
RECURSIVE soloFrom(_, _, _, _)
soloFrom(pat, k, buf, in) ==
    IF k > Len(pat)
    THEN [panic |-> FALSE, b |-> IF Len(buf) = 0 THEN buf ELSE buf \o "\n"]
    ELSE LET res == Call(pat[k], buf, in.t1, in.t2, in.w, in.r)
         IN  IF res.panic THEN [panic |-> TRUE, b |-> buf]
             ELSE soloFrom(pat, k + 1, res.b, in)

Solo(pat, in) == soloFrom(pat, 1, in.b, in)

C7_SameAsSolo ==
    \A c \in callers :
        Started(c) /\ calls[c].pc \in {"done", "panic"} =>
            /\ calls[c].b = Solo(p, calls[c].in).b
            /\ (calls[c].pc = "panic") = Solo(p, calls[c].in).panic

C7_PatternUnchanged == pc = "ok" => p' = p /\ fields' = fields

\* C7: under every interleaving of the renderer invocations of concurrent
\* callers, each with its own buffer, the pattern and the field table stay
\* unchanged and each caller ends with the bytes of a solo execution with
\* its inputs.
C7_ConcurrentExecution == [] C7_SameAsSolo /\ [][C7_PatternUnchanged]_vars

\* Two callers have executed a pattern of several renderers to different lines
C7_Witness ==
    /\ Cardinality(callers) >= 2
    /\ Len(p) >= 2
    /\ \E c, d \in callers :
          /\ calls[c].pc = "done"
          /\ calls[d].pc = "done"
          /\ calls[c].b # calls[d].b
          /\ calls[c].b # calls[c].in.b
          /\ calls[d].b # calls[d].in.b

\* C8: a Text token ends before the next '$': no '$' that follows the first
\* character of a Text token is followed by an identifier character (such a
\* '$' starts a Field or Header token of its own).
C8_TextStopsAtDollar ==
    \A k \in 1..Len(toks) :
        toks[k].typ = itemText =>
            \A j \in 2..(Len(toks[k].val) - 1) :
                ~(At(toks[k].val, j) = "$" /\ isIDChar(At(toks[k].val, j + 1)))

\* The input lex was given for the k-th token of parse
InputOf(k) == SliceFrom(format, Len(Concat(Vals(SubSeq(toks, 1, k - 1)))))

\* The longest run of identifier characters at the start of str
RECURSIVE IdRun(_)
IdRun(str) ==
    IF Len(str) = 0 \/ ~isIDChar(Head(str)) THEN "" ELSE Head(str) \o IdRun(Tail(str))

\* C9: on an input that starts with "$header.", lex returns the Header token
\* "$header.Name" when an identifier character follows the dot, and
\* otherwise a Field token one shorter than the characters read (9 with a
\* character after the dot, 8 at end of input); an input read to its end in
\* another state gives a token of the full length: Field, Header or Text
\* (Text of length 0 for the empty input, on which lex never leaves Start).
C9_DotState ==
    \A k \in 1..Len(toks) :
        LET input == InputOf(k)
            tok == toks[k]
            read == IF Len(input) >= 9 THEN 9 ELSE 8
        IN  /\ lex("") = [typ |-> itemText, n |-> 0]
            /\ HasPrefix(input, "$header.") =>
                IF Len(input) >= 9 /\ isIDChar(At(input, 9))
                THEN tok = [typ |-> itemHeader,
                            val |-> "$header." \o IdRun(SliceFrom(input, 8))]
                ELSE tok.typ = itemField /\ Len(tok.val) = read - 1
            /\ (Len(input) >= 2 /\ At(input, 1) = "$" /\ IsIdRun(SliceFrom(input, 1))) =>
                    tok = [typ |-> itemField, val |-> input]
            /\ (HasPrefix(input, "$header.") /\ Len(input) >= 9
                    /\ IsIdRun(SliceFrom(input, 8))) =>
                    tok = [typ |-> itemHeader, val |-> input]
            /\ (At(input, 1) # "$" /\ "$" \notin Chars(input)) =>
                    tok = [typ |-> itemText, val |-> input]
            /\ (At(input, 1) = "$" /\ (Len(input) = 1 \/ ~isIDChar(At(input, 2)))
                    /\ "$" \notin Chars(SliceFrom(input, 2))) =>
                    tok = [typ |-> itemText, val |-> input]

\* lex has returned in the Dot state at the end of the input "$header."
C9_Witness ==
    /\ format = "$header."
    /\ Len(toks) >= 1
    /\ toks[1] = [typ |-> itemField, val |-> "$header"]

\* C10: lex returns 1 <= n <= len(input) on every non-empty input, parse runs
\* at most len(format) iterations, and the texts of the tokens consumed so far
\* followed by the input left are the format: the whole format once the loop
\* has run to the end.
C10_Progress ==
    /\ (pc = "loop" /\ Len(s) # 0) => lex(s).n \in 1..Len(s)
    /\ \A k \in 1..Len(toks) : Len(toks[k].val) >= 1
    /\ Len(toks) <= Len(format)
    /\ Concat(Vals(toks)) \o s = format
    /\ pc = "ok" => Concat(Vals(toks)) = format /\ Len(s) = 0

\* parse has consumed a format of several tokens to its end
C10_Witness ==
    /\ pc = "ok"
    /\ Len(toks) >= 3
    /\ Len(format) > Len(toks)

=============================================================================
